---- MODULE Spec2Model ----
(***************************************************************************)
(* Model of maxtime.hh: filter_ride_vector, sum_ride_vector,               *)
(* dynamic_max_time and exhaustive_max_time.                               *)
(*                                                                         *)
(* A RideItem is a record [cost, time].  A RideVector holds shared         *)
(* pointers; a pointer is modelled as the position (1..N) of the item in   *)
(* the input vector `rides`, so a result vector is a sequence of           *)
(* positions.  Times are doubles in the source; the model draws them from  *)
(* the integer values -1, 0 and 1, on which double addition and comparison *)
(* are exact: rounding of sums of non-representable times is not modelled. *)
(***************************************************************************)
EXTENDS Integers, Sequences, FiniteSets

\* ---------------------------------------------------------------- bounds
MaxN == 3
MaxCost == 2
MaxBudget == 3

\* n is capped at 64 in exhaustive_max_time
ExhCap == 64

VARIABLES
    rides,       \* the input RideVector: sequence of [cost, time]
    total_cost,  \* the budget handed to both solvers
    pc,          \* position in the code
    cache,       \* dynamic_max_time: the 2D table
    i,           \* dynamic_max_time: outer loop index
    j,           \* dynamic_max_time: inner loop index
    tempcost,    \* dynamic_max_time: remaining budget of the walk
    result,      \* dynamic_max_time: the returned vector (positions)
    bits,        \* exhaustive_max_time: loop counter
    best,        \* exhaustive_max_time: best vector so far (positions)
    evals,       \* exhaustive_max_time: the candidates built so far, in order
    min_time,    \* filter_ride_vector: argument
    max_time,    \* filter_ride_vector: argument
    total_size,  \* filter_ride_vector: argument
    source,      \* filter_ride_vector: argument (positions in rides)
    pos,         \* filter_ride_vector: position of the range-for in source
    filtered,    \* filter_ride_vector: filtered_rides
    first,       \* the vector returned by the first filter call
    pass         \* 1: filtering rides, 2: filtering the first call's result

vars == <<rides, total_cost, pc, cache, i, j, tempcost, result, bits, best,
          evals, min_time, max_time, total_size, source, pos, filtered,
          first, pass>>

dynVars == <<cache, i, j, tempcost, result>>
exhVars == <<bits, best, evals>>
filterVars == <<min_time, max_time, total_size, source, pos, filtered, first, pass>>

\* ---------------------------------------------------------------- data
\* the times the items are drawn from: one negative, zero, one positive
Times == {0 - 1, 0, 1}

RideItem == [cost : 1..MaxCost, time : Times]

RideVector == UNION {[1..n -> RideItem] : n \in 0..MaxN}

N == Len(rides)

Max(a, b) == IF a >= b THEN a ELSE b

\* ---------------------------------------------------------------- sum_ride_vector
RECURSIVE SumCostTo(_, _)
SumCostTo(v, k) == IF k = 0 THEN 0 ELSE SumCostTo(v, k - 1) + rides[v[k]].cost

RECURSIVE SumTimeTo(_, _)
SumTimeTo(v, k) == IF k = 0 THEN 0 ELSE SumTimeTo(v, k - 1) + rides[v[k]].time

SumCost(v) == SumCostTo(v, Len(v))

SumTime(v) == SumTimeTo(v, Len(v))

\* ---------------------------------------------------------------- dynamic_max_time
\* rows 0..N, columns 0..total_cost+1, every cell 0.0
NewCache == [r \in 0..N |-> [c \in 0..(total_cost + 1) |-> 0]]

FillCellUnbounded(c, r, k) ==
    LET item == rides[r] IN
    IF k - item.cost >= 0
    THEN Max(item.time + c[r][k - item.cost], c[r - 1][k])
    ELSE c[r - 1][k]

FillCellNoMax(c, r, k) ==
    LET item == rides[r] IN
    IF k - item.cost >= 0
    THEN item.time + c[r - 1][k - item.cost]
    ELSE c[r - 1][k]

\* the value stored in cache[r][k]
FillCell(c, r, k) ==
    LET item == rides[r] IN
    IF k - item.cost >= 0
    THEN Max(item.time + c[r - 1][k - item.cost], c[r - 1][k])
    ELSE c[r - 1][k]

ExcludedInverted(c, r, t) == c[r][t] # c[r - 1][t]

\* the test of the reconstruction walk: item r was not taken
Excluded(c, r, t) == c[r][t] = c[r - 1][t]

TempcostKept(t, r) == t

\* tempcost -= rides.at(r-1)->cost()
NextTempcost(t, r) == t - rides[r].cost

\* the column index is inside a row of the table
InTable(t) == t \in 0..(total_cost + 1)

DynAlloc ==
    /\ pc = "start"
    /\ cache' = NewCache
    /\ i' = 1
    /\ j' = 1
    /\ pc' = "fill"
    /\ UNCHANGED <<rides, total_cost, tempcost, result, exhVars, filterVars>>

\* one iteration of the inner loop; the loops are empty when total_cost < 1
DynFill ==
    /\ pc = "fill"
    /\ i <= N
    /\ total_cost >= 1
    /\ cache' = [cache EXCEPT ![i][j] = FillCell(cache, i, j)]
    /\ IF j < total_cost
       THEN j' = j + 1 /\ i' = i
       ELSE j' = 1 /\ i' = i + 1
    /\ UNCHANGED <<rides, total_cost, pc, tempcost, result, exhVars, filterVars>>

DynFillDone ==
    /\ pc = "fill"
    /\ (i > N \/ total_cost < 1)
    /\ pc' = "filled"
    /\ UNCHANGED <<rides, total_cost, dynVars, exhVars, filterVars>>

DynWalkInit ==
    /\ pc = "filled"
    /\ tempcost' = total_cost
    /\ i' = N
    /\ pc' = "walk"
    /\ UNCHANGED <<rides, total_cost, cache, j, result, exhVars, filterVars>>

\* one iteration of the reconstruction loop; an index outside the row is an
\* out-of-bounds read of the vector, after which nothing is known: "fault"
DynWalk ==
    /\ pc = "walk"
    /\ i > 0
    /\ IF ~InTable(tempcost)
       THEN /\ pc' = "fault"
            /\ UNCHANGED <<i, tempcost, result>>
       ELSE /\ pc' = pc
            /\ i' = i - 1
            /\ IF Excluded(cache, i, tempcost)
               THEN UNCHANGED <<tempcost, result>>
               ELSE /\ result' = Append(result, i)
                    /\ tempcost' = NextTempcost(tempcost, i)
    /\ UNCHANGED <<rides, total_cost, cache, j, exhVars, filterVars>>

DynReturn ==
    /\ pc = "walk"
    /\ i = 0
    /\ pc' = "dyn_done"
    /\ UNCHANGED <<rides, total_cost, dynVars, exhVars, filterVars>>

\* ---------------------------------------------------------------- exhaustive_max_time
\* int n = rides.size(); if (n > 64) n = 64;
ExhN == IF N > ExhCap THEN ExhCap ELSE N

LastBitsExclusive(n) == 2^n - 1

\* the loop runs while bits <= pow(2, n)
LastBits(n) == 2^n

\* the candidate of one bit pattern: position k+1 is taken when bit k is set
RECURSIVE CandidateFrom(_, _, _)
CandidateFrom(b, n, k) ==
    IF k >= n
    THEN <<>>
    ELSE (IF (b \div 2^k) % 2 = 1 THEN <<k + 1>> ELSE <<>>)
         \o CandidateFrom(b, n, k + 1)

Candidate(b, n) == CandidateFrom(b, n, 0)

\* the candidate becomes the best
Replaces(candidate, bst) ==
    /\ SumCost(candidate) <= total_cost
    /\ (bst = <<>> \/ SumTime(candidate) > SumTime(bst))

ExhInit ==
    /\ pc = "dyn_done"
    /\ bits' = 0
    /\ best' = <<>>
    /\ evals' = <<>>
    /\ pc' = "exh"
    /\ UNCHANGED <<rides, total_cost, dynVars, filterVars>>

\* one iteration of the loop over bits
ExhStep ==
    /\ pc = "exh"
    /\ bits <= LastBits(ExhN)
    /\ LET candidate == Candidate(bits, ExhN) IN
         /\ evals' = Append(evals, candidate)
         /\ best' = IF Replaces(candidate, best) THEN candidate ELSE best
    /\ bits' = bits + 1
    /\ UNCHANGED <<rides, total_cost, pc, dynVars, filterVars>>

ExhReturn ==
    /\ pc = "exh"
    /\ bits > LastBits(ExhN)
    /\ pc' = "done"
    /\ UNCHANGED <<rides, total_cost, dynVars, exhVars, filterVars>>

\* ---------------------------------------------------------------- filter_ride_vector
\* the test that admits an element
FilterMatch(r, lo, hi) == r.time >= lo /\ r.time <= hi /\ r.time > 0

FilterFullInverted(size, limit) == size <= limit

\* the test that ends the loop
FilterFull(size, limit) == size >= limit

\* one iteration of the range-for over source
FilterStep ==
    /\ pc = "filter"
    /\ pos <= Len(source)
    /\ LET element == source[pos]
           out == IF FilterMatch(rides[element], min_time, max_time)
                  THEN Append(filtered, element)
                  ELSE filtered
       IN /\ filtered' = out
          /\ IF FilterFull(Len(out), total_size)
             THEN pc' = "filtered" /\ pos' = pos
             ELSE pc' = pc /\ pos' = pos + 1
    /\ UNCHANGED <<rides, total_cost, dynVars, exhVars, min_time, max_time,
                   total_size, source, first, pass>>

FilterReturn ==
    /\ pc = "filter"
    /\ pos > Len(source)
    /\ pc' = "filtered"
    /\ UNCHANGED <<rides, total_cost, dynVars, exhVars, filterVars>>

\* the returned vector is filtered again, same range, size bound k >= total_size
FilterAgain ==
    /\ pc = "filtered"
    /\ pass = 1
    /\ \E k \in total_size..(MaxN + 1) :
         /\ total_size' = k
         /\ source' = filtered
         /\ first' = filtered
         /\ filtered' = <<>>
         /\ pos' = 1
         /\ pass' = 2
         /\ pc' = "filter"
    /\ UNCHANGED <<rides, total_cost, dynVars, exhVars, min_time, max_time>>

\* ---------------------------------------------------------------- specifications
Init ==
    /\ rides \in RideVector
    /\ total_cost \in 0..MaxBudget
    /\ pc = "start"
    /\ cache = <<>>
    /\ i = 0
    /\ j = 0
    /\ tempcost = 0
    /\ result = <<>>
    /\ bits = 0
    /\ best = <<>>
    /\ evals = <<>>
    /\ min_time = 0
    /\ max_time = 0
    /\ total_size = 0
    /\ source = <<>>
    /\ pos = 0
    /\ filtered = <<>>
    /\ first = <<>>
    /\ pass = 0

Next ==
    \/ DynAlloc
    \/ DynFill
    \/ DynFillDone
    \/ DynWalkInit
    \/ DynWalk
    \/ DynReturn
    \/ ExhInit
    \/ ExhStep
    \/ ExhReturn

Spec == Init /\ [][Next]_vars

\* filter_ride_vector reads only the times: the costs are all 1 here
FilterInit ==
    /\ rides \in {v \in RideVector : \A k \in 1..Len(v) : v[k].cost = 1}
    /\ min_time \in Times
    /\ max_time \in Times
    /\ total_size \in 0..(MaxN + 1)
    /\ source = [k \in 1..Len(rides) |-> k]
    /\ pos = 1
    /\ filtered = <<>>
    /\ first = <<>>
    /\ pass = 1
    /\ pc = "filter"
    /\ total_cost = 0
    /\ cache = <<>>
    /\ i = 0
    /\ j = 0
    /\ tempcost = 0
    /\ result = <<>>
    /\ bits = 0
    /\ best = <<>>
    /\ evals = <<>>

FilterNext ==
    \/ FilterStep
    \/ FilterReturn
    \/ FilterAgain

FilterSpec == FilterInit /\ [][FilterNext]_vars

\* ---------------------------------------------------------------- properties
Range(v) == {v[k] : k \in 1..Len(v)}

RECURSIVE SetCost(_)
SetCost(S) ==
    IF S = {} THEN 0
    ELSE LET k == CHOOSE x \in S : TRUE IN rides[k].cost + SetCost(S \ {k})

RECURSIVE SetTime(_)
SetTime(S) ==
    IF S = {} THEN 0
    ELSE LET k == CHOOSE x \in S : TRUE IN rides[k].time + SetTime(S \ {k})

\* the subsets of the first r items whose total cost is at most b
Feasible(r, b) == {S \in SUBSET (1..r) : SetCost(S) <= b}

\* the greatest total time of a subset of the first r items of cost at most b
MaxTimeOver(r, b) ==
    LET ts == {SetTime(S) : S \in Feasible(r, b)}
    IN CHOOSE m \in ts : \A t \in ts : t <= m

\* bit k-1 set = position k included
RECURSIVE BitPattern(_)
BitPattern(S) ==
    IF S = {} THEN 0
    ELSE LET k == CHOOSE x \in S : TRUE IN 2^(k - 1) + BitPattern(S \ {k})

Take(v, k) == SubSeq(v, 1, IF k < Len(v) THEN k ELSE Len(v))

AfterWalkStart == pc \in {"walk", "dyn_done", "exh", "done"}

\* C1: the vector returned by dynamic_max_time holds positions of the input,
\* none twice, of total cost at most the budget; with a budget of 0, or when
\* every item costs more than the budget, it is empty.
C1_DynWithinBudget ==
    AfterWalkStart =>
        /\ \A a \in 1..Len(result) : result[a] \in 1..N
        /\ \A a, b \in 1..Len(result) : a # b => result[a] # result[b]
        /\ SumCost(result) <= total_cost
        /\ (total_cost = 0 \/ \A k \in 1..N : rides[k].cost > total_cost)
               => result = <<>>

C1_Witness ==
    /\ pc = "dyn_done"
    /\ Len(result) >= 2
    /\ Len(result) < N
    /\ SumCost(result) = total_cost

C3_ExhaustiveOptimal ==
    pc = "done" =>
        /\ \A a, b \in 1..Len(best) : a < b => best[a] < best[b]
        /\ Range(best) \subseteq 1..N
        /\ SumCost(best) <= total_cost
        /\ \A S \in Feasible(N, total_cost) : SumTime(best) >= SetTime(S)

C3_Witness ==
    /\ pc = "done"
    /\ N >= 2
    /\ rides[1].time < 0
    /\ rides[1].cost <= total_cost
    /\ \A k \in 1..N : rides[k].time <= 0

\* C4: with a size bound of at least 1, filter_ride_vector returns exactly the
\* first total_size items of the source, in source order, whose time lies in
\* the closed range [min_time, max_time].
C4_FilterExactRange ==
    (pc = "filtered" /\ pass = 1 /\ total_size >= 1) =>
        LET InRange(k) == /\ rides[k].time >= min_time
                          /\ rides[k].time <= max_time
        IN filtered = Take(SelectSeq(source, InRange), total_size)

\* C5: filter_ride_vector returns at most total_size items, for every
\* total_size >= 0.
C5_FilterSizeBound ==
    (pc = "filtered" /\ pass = 1) => Len(filtered) <= total_size

\* C6: the best vector of exhaustive_max_time is, after every iteration, the
\* subset of smallest bit pattern among the subsets evaluated so far that are
\* within the budget and of greatest total time: the first one met wins ties.
C6_FirstOptimumWins ==
    (pc \in {"exh", "done"} /\ bits >= 1) =>
        LET seen == {S \in Feasible(N, total_cost) : BitPattern(S) < bits}
            top == {S \in seen : \A T \in seen : SetTime(T) <= SetTime(S)}
            winner == CHOOSE S \in top : \A T \in top : BitPattern(S) <= BitPattern(T)
        IN Range(best) = winner

\* C7: filtering the result of filter_ride_vector again, with the same range
\* and a size bound at least as large, returns the same vector.
C7_FilterIdempotent ==
    (pc = "filtered" /\ pass = 2) => filtered = first

C7_Witness ==
    /\ pc = "filtered"
    /\ pass = 2
    /\ Len(first) >= 2
    /\ Len(first) < N

\* C8: while the table is filled, every cell already written, and after the
\* loops every cell cache[r][c] with r in 0..N, c in 0..total_cost, holds the
\* greatest total time of a subset of the first r items of cost at most c;
\* row 0 and column 0 hold 0 and the cells not yet written hold 0.
C8_TableInvariant ==
    pc \in {"fill", "filled"} =>
        \A r \in 0..N : \A c \in 0..total_cost :
            LET written == \/ pc = "filled"
                           \/ r = 0
                           \/ c = 0
                           \/ r < i
                           \/ (r = i /\ c < j)
            IN cache[r][c] = IF written THEN MaxTimeOver(r, c) ELSE 0

C8_Witness ==
    /\ pc = "filled"
    /\ total_cost >= 2
    /\ \E k \in 1..N : rides[k].time < 0
    /\ cache[N][total_cost] > cache[N][total_cost - 1]
    /\ cache[N][total_cost - 1] > 0

\* C9: exhaustive_max_time evaluates exactly 2^N candidates, every subset of
\* the input exactly once.
C9_EachSubsetOnce ==
    pc = "done" =>
        /\ Len(evals) = 2^N
        /\ \A S \in SUBSET (1..N) :
               Cardinality({k \in 1..Len(evals) : Range(evals[k]) = S}) = 1

\* C10: during the reconstruction walk the remaining budget is an integer in
\* 0..total_cost (the budget less the cost of the items appended so far), so
\* no read of the table is out of bounds.
C10_WalkIndexInTable ==
    /\ pc # "fault"
    /\ AfterWalkStart =>
           /\ tempcost \in 0..total_cost
           /\ tempcost = total_cost - SumCost(result)

C10_Witness ==
    /\ pc = "walk"
    /\ i >= 1
    /\ tempcost = 0
    /\ Len(result) >= 2

====
